---- MODULE Spec2Model ----
(***************************************************************************)
(* State-machine model of stock_bot.py: the price_monitor coroutine, the   *)
(* button/command handlers that share its event loop, and the JSON state   *)
(* file (state.json) through which they communicate.                       *)
(*                                                                         *)
(* Atomicity follows asyncio: a coroutine runs without interruption        *)
(* between two awaits.  requests.get, load_state and save_state are        *)
(* synchronous, so the only points where the monitor is suspended are the  *)
(* sleep between iterations and the bot.send_message call of send_to_user. *)
(* Handlers act only while the monitor is suspended (Yielding).  Every     *)
(* handler reads and writes the state file between two of its own awaits,  *)
(* so each handler's file update is one step.                              *)
(***************************************************************************)
EXTENDS Integers, FiniteSets, Sequences, TLC

\* ---------------------------------------------------------------- bounds

\* Calendar dates are 1..MaxDay; date 1 is a Thursday.
MaxDay == 3
\* Handler events served while one iteration of price_monitor is suspended
\* in a send; between iterations their number is unbounded.
MaxEvents == 1

\* ------------------------------------------------------------- constants

DEFAULT_THRESHOLD == 2
\* config['telegram']['chat_id']
AdminId == 0
\* Python's None (a key absent from the state document, a failed fetch).
None == -1
\* datetime.weekday() of date 1 (Monday is 0).
FirstWeekday == 3

\* options of get_alert_keyboard: the thresholds a callback can carry.
AlertOptions == {1, 2, 3, 5}
\* The options the model's callbacks carry: on the model's prices 2 stands
\* for the options that a move between two prices reaches, 3 for the others.
ThresholdInputs == {t \in AlertOptions : t = DEFAULT_THRESHOLD \/ t = DEFAULT_THRESHOLD + 1}

\* The chats that talk to the bot: the admin and one other user.
UserIds == {1}
ChatIds == {AdminId} \cup UserIds
Dates == 1..MaxDay

\* Clock readings (hour, minute) that separate the cases of the loop's tests.
Weekday(d) == (FirstWeekday + d - 1) % 7

\* Clock readings (hour, minute) that separate the cases of the loop's tests;
\* one reading stands for a whole Saturday or Sunday.
DayTimes(d) ==
    IF Weekday(d) < 5
    THEN { <<8, 0>>, <<9, 0>>, <<9, 5>>, <<15, 0>>, <<15, 30>>, <<16, 0>> }
    ELSE { <<9, 5>> }
Times == UNION { { [date |-> d, hour |-> hm[1], minute |-> hm[2]] : hm \in DayTimes(d) } : d \in Dates }

\* Prices the quote endpoint delivers.
CurPrices == {980, 1000}
OpenPrices == {0, 1000}
PrevClosePrices == {0, 1000}
Quotes == [current : CurPrices, open : OpenPrices, prev_close : PrevClosePrices]
NoQuote == [current |-> None, open |-> None, prev_close |-> None]

Abs(x) == IF x < 0 THEN 0 - x ELSE x

\* t1 is strictly earlier than t2.
Earlier(t1, t2) ==
    \/ t1.date < t2.date
    \/ t1.date = t2.date /\ t1.hour * 60 + t1.minute < t2.hour * 60 + t2.minute

\* ----------------------------------------------------------------- state

VARIABLES
    store,      \* the state file state.json
    proc,       \* "running", "exiting" (restart requested), "exited"
    now,        \* the clock reading of the monitor's latest iteration
    pc,         \* where price_monitor is
    mstate,     \* price_monitor's local `state`
    quote,      \* price_monitor's local `price_data`
    pending,    \* send_to_all_active: recipients still to be sent to
    todo,       \* threshold loop: chat ids still to be checked
    cur,        \* threshold loop: the chat id whose alert is being sent
    log,        \* what the current iteration did: <<kind, chat, delivered>>
    events,     \* handler events served since the current iteration began
    hist        \* for the date of the latest quote: broadcasts begun, resets done

monVars == <<pc, mstate, quote, pending, todo, cur>>
obsVars == <<log, hist>>
vars == <<store, proc, now, pc, mstate, quote, pending, todo, cur, log, events, hist>>

NoUsers == [c \in {} |-> 0]

\* load_state() when no file exists: {'users': {}}.  A flag that is absent
\* reads as falsy in `not state.get(...)`, the only way the flags are read.
EmptyState ==
    [last_date |-> None, open_price |-> None,
     sent_open_alert |-> FALSE, sent_close_alert |-> FALSE,
     users |-> NoUsers, restart_chat_id |-> None]

NoRec == [enabled |-> FALSE, threshold |-> 0, last_alert_price |-> None]

NoHist == [date |-> None, opens |-> 0, closes |-> 0, resets |-> 0]

Init ==
    /\ store = EmptyState
    /\ proc = "running"
    /\ now = [date |-> 1, hour |-> 8, minute |-> 0]
    /\ pc = "sleep"
    /\ mstate = EmptyState
    /\ quote = NoQuote
    /\ pending = {}
    /\ todo = {}
    /\ cur = None
    /\ log = {}
    /\ events = 0
    /\ hist = NoHist

\* ------------------------------------------------------ state-file helpers

\* users.get(chat_id, None)
GetUserSettings(st, c) == IF c \in DOMAIN st.users THEN st.users[c] ELSE NoRec

HasUser(st, c) == c \in DOMAIN st.users

\* set_user_settings on a freshly loaded document
SetUserSettings(st, c, rec) ==
    [st EXCEPT !.users = [x \in DOMAIN st.users \cup {c} |->
                             IF x = c THEN rec ELSE st.users[x]]]

\* remove_user on a freshly loaded document
RemoveUser(st, c) ==
    [st EXCEPT !.users = [x \in DOMAIN st.users \ {c} |-> st.users[x]]]

\* ---------------------------------------------------------- price_monitor

\* price_monitor is suspended in an await: the sleep, or a send_message.
Yielding == pc \in {"sleep", "open_send", "thresh_send", "close_send"}

\* Mutant of InMarketHours: the day of the week is not tested.
InMarketHours_AnyDay(t) == 9 <= t.hour /\ t.hour < 16

\* `now.weekday() < 5 and 9 <= now.hour < 16`
InMarketHours(t) == Weekday(t.date) < 5 /\ 9 <= t.hour /\ t.hour < 16

\* Mutants of FirstQueryToday: the reset on every query; only on the first run.
FirstQueryToday_Always(st, today) == TRUE
FirstQueryToday_OnlyFirstRun(st, today) == st.last_date = None

\* `state.get('last_date') != today`: the first query of a day.
FirstQueryToday(st, today) == st.last_date # today

\* Mutant of ResetDay: only the enabled users' references are reset.
ResetDay_EnabledOnly(st, today, open) ==
    [st EXCEPT !.last_date = today,
               !.open_price = open,
               !.sent_open_alert = FALSE,
               !.sent_close_alert = FALSE,
               !.users = [c \in DOMAIN st.users |->
                            IF st.users[c].enabled
                            THEN [st.users[c] EXCEPT !.last_alert_price = open]
                            ELSE st.users[c]]]

\* The reset of the first query of a day: the day fields, and every user's
\* last_alert_price, whatever the user's enabled flag.
ResetDay(st, today, open) ==
    [st EXCEPT !.last_date = today,
               !.open_price = open,
               !.sent_open_alert = FALSE,
               !.sent_close_alert = FALSE,
               !.users = [c \in DOMAIN st.users |->
                            [st.users[c] EXCEPT !.last_alert_price = open]]]

\* Mutants of OpenDue: the minute is not tested; the hour is a lower bound.
OpenDue_NoMinute(st, t) == ~st.sent_open_alert /\ t.hour = 9
OpenDue_AnyHour(st, t) == ~st.sent_open_alert /\ t.hour >= 9 /\ t.minute >= 5

\* `not state.get('sent_open_alert') and now.hour == 9 and now.minute >= 5`
OpenDue(st, t) == ~st.sent_open_alert /\ t.hour = 9 /\ t.minute >= 5

\* Mutant of CloseDue: the minute is not tested.
CloseDue_NoMinute(st, t) == ~st.sent_close_alert /\ t.hour >= 15

\* `not state.get('sent_close_alert') and now.hour >= 15 and now.minute >= 30`
CloseDue(st, t) == ~st.sent_close_alert /\ t.hour >= 15 /\ t.minute >= 30

\* send_to_all_active: the chat ids of a fresh load of the file, the admin
\* added, those whose record (default: enabled) is enabled.
ActiveRecipients(st) ==
    { c \in DOMAIN st.users \cup {AdminId} :
        IF c \in DOMAIN st.users THEN st.users[c].enabled ELSE TRUE }

\* users.get(chat_id, {enabled, DEFAULT_THRESHOLD, open_price})
CheckSettings(st, c, open) ==
    IF c \in DOMAIN st.users THEN st.users[c]
    ELSE [enabled |-> TRUE, threshold |-> DEFAULT_THRESHOLD, last_alert_price |-> open]

\* Mutant of Fires: the change is compared with its sign.
Fires_NoAbs(current, last, threshold) ==
    /\ last > 0
    /\ (current - last) * 100 >= threshold * last

\* Mutant of Fires: the test without its guard.
Fires_NoGuard(current, last, threshold) ==
    Abs(current - last) * 100 >= threshold * last

\* abs(((current - last) / last) * 100) >= threshold, guarded by last > 0
Fires(current, last, threshold) ==
    /\ last > 0
    /\ Abs(current - last) * 100 >= threshold * last

\* The alert's text: `direction` is the rise when change > 0, and
\* `abs(change):.1f` is the change in tenths of a percent, rounded.
Direction(current, last) == IF current > last THEN "rise" ELSE "fall"
ChangeTenths(current, last) == (Abs(current - last) * 2000 + last) \div (2 * last)

\* The iteration's log: a broadcast or a reset is logged with chat None.
Began(kind) == <<kind, None, TRUE>> \in log
Tried(kind, c) == \E ok \in BOOLEAN : <<kind, c, ok>> \in log
Delivered(kind, c) == <<kind, c, TRUE>> \in log

\* The monitor's locals are dead between two iterations.
NoLocals ==
    /\ mstate' = EmptyState
    /\ quote' = NoQuote
    /\ pending' = {}
    /\ todo' = {}
    /\ cur' = None
    /\ events' = 0

\* The body of an iteration is over, leaving `file` in state.json; what is
\* left of the iteration is its sleep.
EndIteration(file, lg, h) ==
    /\ pc' = "done"
    /\ store' = file
    /\ log' = lg
    /\ hist' = h
    /\ NoLocals

\* Mutant of Raise: the exception is not caught and ends the coroutine.
Raise_Uncaught(file, lg, h) ==
    /\ pc' = "crashed"
    /\ store' = file
    /\ log' = lg \cup {<<"error", None, TRUE>>}
    /\ hist' = h
    /\ NoLocals

\* The body raised: the loop's except clause logs the error.
Raise(file, lg, h) == EndIteration(file, lg \cup {<<"error", None, TRUE>>}, h)

\* The monitor is suspended in a send_message; st is its local state, file
\* the content of state.json.  price_data['prev_close'] is read only by the
\* open alert, before its first send: the local quote keeps current and open.
Suspend(label, st, file, q, rcpt, rest, c, lg, h, ev) ==
    /\ pc' = label
    /\ mstate' = st
    /\ store' = file
    /\ quote' = [q EXCEPT !.prev_close = None]
    /\ pending' = rcpt
    /\ todo' = rest
    /\ cur' = c
    /\ log' = lg
    /\ hist' = h
    /\ events' = ev

\* The close alert's test.  The change against the open is computed before
\* send_to_all_active, which loads the recipients from the file; with no
\* active recipient the flag is set and saved at once.
EnterClose(t, st, file, q, lg, h, ev) ==
    IF ~CloseDue(st, t)
    THEN EndIteration(file, lg, h)
    ELSE IF q.open = 0
    THEN \* ZeroDivisionError
         Raise(file, lg, h)
    ELSE LET rcpt == ActiveRecipients(file)
             h2 == [h EXCEPT !.closes = @ + 1]
             lg2 == lg \cup {<<"close", None, TRUE>>}
         IN IF rcpt = {}
            THEN EndIteration([st EXCEPT !.sent_close_alert = TRUE], lg2, h2)
            ELSE Suspend("close_send", st, file, q, rcpt, {}, None, lg2, h2, ev)

\* The recipients of all_check_ids (the local state's chat ids and the
\* admin) for whom the threshold test succeeds.  A turn of the loop for any
\* other recipient changes nothing.
Firing(st, q) ==
    { c \in DOMAIN st.users \cup {AdminId} :
        LET us == CheckSettings(st, c, q.open)
        IN us.enabled /\ Fires(q.current, us.last_alert_price, us.threshold) }

\* The per-recipient loop goes on to its next alert, in the set's iteration
\* order (any); change_from_open is computed before the send.
EnterThresh(t, st, file, q, rest, lg, h, ev) ==
    IF rest = {}
    THEN EnterClose(t, st, file, q, lg, h, ev)
    ELSE IF q.open = 0
    THEN \* ZeroDivisionError
         Raise(file, lg, h)
    ELSE \E c \in rest :
            Suspend("thresh_send", st, file, q, {}, rest \ {c}, c, lg, h, ev)

\* The open broadcast is over: sent_open_alert is set in the local state,
\* which is saved; the per-recipient loop follows.
OpenBroadcastDone(t, st, q, lg, h, ev) ==
    LET st2 == [st EXCEPT !.sent_open_alert = TRUE]
    IN EnterThresh(t, st2, st2, q, Firing(st2, q), lg, h, ev)

\* The open alert's test; st has just been loaded (and saved, if reset).
\* The change against prev_close is computed before send_to_all_active.
EnterOpen(t, st, q, lg, h) ==
    IF ~OpenDue(st, t)
    THEN EnterThresh(t, st, st, q, Firing(st, q), lg, h, 0)
    ELSE IF q.prev_close = 0
    THEN \* ZeroDivisionError
         Raise(st, lg, h)
    ELSE LET rcpt == ActiveRecipients(st)
             h2 == [h EXCEPT !.opens = @ + 1]
             lg2 == lg \cup {<<"open", None, TRUE>>}
         IN IF rcpt = {}
            THEN OpenBroadcastDone(t, st, q, lg2, h2, 0)
            ELSE Suspend("open_send", st, st, q, rcpt, {}, None, lg2, h2, 0)

\* An iteration outside weekday market hours: the body is skipped, only the
\* loop's sleep follows.
PollSkip(t) ==
    /\ ~InMarketHours(t)
    /\ EndIteration(store, {<<"skipped", None, TRUE>>}, hist)

\* Mutant of PollFetchFailed: the day's reset is done before the quote is tested.
PollFetchFailed_ResetFirst(t) ==
    /\ InMarketHours(t)
    /\ EndIteration(IF FirstQueryToday(store, t.date)
                    THEN ResetDay(store, t.date, 0) ELSE store,
                    {<<"fetch_failed", None, TRUE>>}, hist)

\* The state was loaded and get_stock_price returned None (it logged the
\* failure): `if price_data:` skips the body.
PollFetchFailed(t) ==
    /\ InMarketHours(t)
    /\ EndIteration(store, {<<"fetch_failed", None, TRUE>>}, hist)

\* A quote was obtained: the first-query-of-the-day reset (saved at once),
\* then the alerts.
PollQuote(t, q) ==
    LET first == FirstQueryToday(store, t.date)
        st == IF first THEN ResetDay(store, t.date, q.open) ELSE store
        h0 == IF hist.date # t.date
              THEN [date |-> t.date, opens |-> 0, closes |-> 0, resets |-> 0]
              ELSE hist
        h1 == [h0 EXCEPT !.resets = IF first THEN @ + 1 ELSE @]
        l0 == IF first THEN {<<"reset", None, TRUE>>} ELSE {}
    IN
    /\ InMarketHours(t)
    /\ EnterOpen(t, st, q, l0, h1)

\* One wake-up of price_monitor: read the clock, which never runs backwards.
Poll ==
    /\ proc # "exited"
    /\ pc = "sleep"
    /\ \E t \in Times :
        /\ ~Earlier(t, now)
        /\ now' = t
        /\ \/ PollSkip(t)
           \/ PollFetchFailed(t)
           \/ \E q \in Quotes : PollQuote(t, q)
    /\ UNCHANGED proc

\* The iteration's sleep begins: check_interval after a normal end, 60
\* seconds after an error.
Sleep ==
    /\ pc = "done"
    /\ pc' = "sleep"
    /\ log' = {}
    /\ UNCHANGED <<store, proc, now, mstate, quote, pending, todo, cur, events, hist>>

\* Mutant of OpenSend: a failed send_message is not caught and ends the iteration.
OpenSend_AbortOnFailure ==
    /\ pc = "open_send"
    /\ \E c \in pending, ok \in BOOLEAN :
        LET lg == log \cup {<<"open", c, ok>>}
        IN IF ~ok
           THEN Raise(store, lg, hist)
           ELSE IF pending = {c}
           THEN OpenBroadcastDone(now, mstate, quote, lg, hist, events)
           ELSE Suspend("open_send", mstate, store, quote, pending \ {c}, {}, None,
                        lg, hist, events)
    /\ UNCHANGED <<proc, now>>

\* send_to_user inside the open broadcast returns, delivered or not; after
\* the last recipient the flag is set and the local state saved.
OpenSend ==
    /\ pc = "open_send"
    /\ \E c \in pending, ok \in BOOLEAN :
        LET lg == log \cup {<<"open", c, ok>>}
        IN IF pending = {c}
           THEN OpenBroadcastDone(now, mstate, quote, lg, hist, events)
           ELSE Suspend("open_send", mstate, store, quote, pending \ {c}, {}, None,
                        lg, hist, events)
    /\ UNCHANGED <<proc, now>>

\* Mutant of ThreshSend: the reference is moved whatever send_to_user returns.
ThreshSend_MovesOnFailure ==
    /\ pc = "thresh_send"
    /\ \E ok \in BOOLEAN :
        LET moved == HasUser(mstate, cur)
            st == IF moved
                  THEN [mstate EXCEPT !.users[cur].last_alert_price = quote.current]
                  ELSE mstate
            file == IF moved THEN st ELSE store
        IN EnterThresh(now, st, file, quote, todo,
                       log \cup {<<"threshold", cur, ok>>}, hist, events)
    /\ UNCHANGED <<proc, now>>

\* send_to_user of a threshold alert returns; on delivery the recipient's
\* last_alert_price is moved, if the recipient has a record, and the local
\* state saved.
ThreshSend ==
    /\ pc = "thresh_send"
    /\ \E ok \in BOOLEAN :
        LET moved == ok /\ HasUser(mstate, cur)
            st == IF moved
                  THEN [mstate EXCEPT !.users[cur].last_alert_price = quote.current]
                  ELSE mstate
            file == IF moved THEN st ELSE store
        IN EnterThresh(now, st, file, quote, todo,
                       log \cup {<<"threshold", cur, ok>>}, hist, events)
    /\ UNCHANGED <<proc, now>>

\* send_to_user inside the close broadcast returns; after the last
\* recipient the flag is set, the local state saved, and the sleep follows.
CloseSend ==
    /\ pc = "close_send"
    /\ \E c \in pending, ok \in BOOLEAN :
        LET lg == log \cup {<<"close", c, ok>>}
        IN IF pending = {c}
           THEN EndIteration([mstate EXCEPT !.sent_close_alert = TRUE], lg, hist)
           ELSE Suspend("close_send", mstate, store, quote, pending \ {c}, {}, None,
                        lg, hist, events)
    /\ UNCHANGED <<proc, now>>

Monitor ==
    \/ Poll
    \/ Sleep
    \/ OpenSend
    \/ ThreshSend
    \/ CloseSend

\* --------------------------------------------------------------- handlers

\* A handler runs only while the monitor is suspended.  The Application
\* serves one update at a time (concurrent_updates is left at its default),
\* so no handler starts while restart waits for its os._exit.
CanHandle ==
    /\ proc = "running"
    /\ Yielding
    /\ pc = "sleep" \/ events < MaxEvents

\* A handler event was served.
Served ==
    /\ events' = IF pc = "sleep" THEN 0 ELSE events + 1
    /\ UNCHANGED <<now, monVars, obsVars>>

\* What a handler's get_stock_price()['current'] can be; None: the fetch failed.
HandlerPrices == CurPrices \cup {None}

\* The record of a new subscription.
NewRec(threshold, p) ==
    [enabled |-> TRUE, threshold |-> threshold,
     last_alert_price |-> IF p = None THEN 0 ELSE p]

\* Mutant of AfterSubscribe: the new record gets no default threshold.
AfterSubscribe_NoDefault(st, c, p) ==
    IF HasUser(st, c) THEN st
    ELSE SetUserSettings(st, c, NewRec(0, p))

\* The state file after subscribe_button of chat c, p being what its
\* get_stock_price gives: a chat already on file is left as it is.
AfterSubscribe(st, c, p) ==
    IF HasUser(st, c) THEN st
    ELSE SetUserSettings(st, c, NewRec(DEFAULT_THRESHOLD, p))

\* The state file after set_alert_threshold: a new chat is subscribed with
\* the threshold; a chat on file gets the threshold, and the current price
\* as its last_alert_price if the fetch succeeded.
AfterSetThreshold(st, c, threshold, p) ==
    SetUserSettings(st, c,
        IF ~HasUser(st, c)
        THEN NewRec(threshold, p)
        ELSE [st.users[c] EXCEPT
                !.threshold = threshold,
                !.last_alert_price = IF p = None THEN @ ELSE p])

\* Mutant of AfterToggle: the button only switches the alerts off.
AfterToggle_AlwaysOff(st, c) ==
    IF HasUser(st, c)
    THEN SetUserSettings(st, c, [st.users[c] EXCEPT !.enabled = FALSE])
    ELSE st

\* The state file after toggle_alert: enabled is negated for a chat on file.
AfterToggle(st, c) ==
    IF HasUser(st, c)
    THEN SetUserSettings(st, c, [st.users[c] EXCEPT !.enabled = ~@])
    ELSE st

\* The state file after unsubscribe_button: nothing for the admin, the
\* record removed for any other chat.
AfterUnsubscribe(st, c) ==
    IF c = AdminId THEN st ELSE RemoveUser(st, c)

\* subscribe_button
Subscribe(c) ==
    /\ CanHandle
    /\ ~HasUser(store, c)
    /\ \E p \in HandlerPrices : store' = AfterSubscribe(store, c, p)
    /\ Served
    /\ UNCHANGED proc

\* set_alert_threshold
SetAlertThreshold(c, threshold) ==
    /\ CanHandle
    /\ \E p \in HandlerPrices : store' = AfterSetThreshold(store, c, threshold, p)
    /\ Served
    /\ UNCHANGED proc

\* toggle_alert
ToggleAlert(c) ==
    /\ CanHandle
    /\ HasUser(store, c)
    /\ store' = AfterToggle(store, c)
    /\ Served
    /\ UNCHANGED proc

\* unsubscribe_button: refused for the admin
Unsubscribe(c) ==
    /\ CanHandle
    /\ c # AdminId
    /\ HasUser(store, c)
    /\ store' = AfterUnsubscribe(store, c)
    /\ Served
    /\ UNCHANGED proc

\* The refusal of a restart, noted in the log of the iteration during
\* which it was served (between two iterations there is no such log).
Refused(c) == IF pc = "sleep" THEN log ELSE log \cup {<<"refused", c, TRUE>>}

\* `git pull` went well: restart_chat_id is recorded and os._exit scheduled.
Pulled(c) ==
    /\ store' = [store EXCEPT !.restart_chat_id = c]
    /\ proc' = "exiting"
    /\ log' = log

\* Mutant of Restart: the requesting chat is not compared with the admin's.
Restart_NoAdminCheck(c) ==
    /\ CanHandle
    /\ \E pulled \in BOOLEAN :
          IF pulled THEN Pulled(c) ELSE UNCHANGED <<store, proc, log>>
    /\ events' = IF pc = "sleep" THEN 0 ELSE events + 1
    /\ UNCHANGED <<now, monVars, hist>>

\* restart: a chat other than the admin is refused; for the admin a
\* successful `git pull` records restart_chat_id and schedules os._exit.
Restart(c) ==
    /\ CanHandle
    /\ IF c # AdminId
       THEN /\ log' = Refused(c)
            /\ UNCHANGED <<store, proc>>
       ELSE \E pulled \in BOOLEAN :
              IF pulled THEN Pulled(c) ELSE UNCHANGED <<store, proc, log>>
    /\ events' = IF pc = "sleep" THEN 0 ELSE events + 1
    /\ UNCHANGED <<now, monVars, hist>>

\* os._exit(0) after restart's one-second sleep: the file stays, the
\* coroutines and their locals are gone.
Exit ==
    /\ proc = "exiting"
    /\ Yielding
    /\ proc' = "exited"
    /\ pc' = "sleep"
    /\ log' = {}
    /\ NoLocals
    /\ UNCHANGED <<store, now, hist>>

Handler ==
    \/ \E c \in ChatIds : Subscribe(c)
    \/ \E c \in ChatIds, t \in ThresholdInputs : SetAlertThreshold(c, t)
    \/ \E c \in ChatIds : ToggleAlert(c)
    \/ \E c \in ChatIds : Unsubscribe(c)
    \/ \E c \in ChatIds : Restart(c)
    \/ Exit

Next == Monitor \/ Handler

Spec == Init /\ [][Next]_vars

\* ------------------------------------------- the threshold decision alone

\* The per-recipient loop on a wider range of prices and on every threshold
\* of the menu: one weekday afternoon before the close alert, a state file
\* of that date holding one subscriber, and the monitor the only one to act.
DecisionPrices == {980, 1000, 1025}
DecisionQuotes == [current : DecisionPrices, open : {1000}, prev_close : {1000}]
DecisionTime == [date |-> 1, hour |-> 15, minute |-> 0]

DecisionInit ==
    /\ \E en \in BOOLEAN, th \in AlertOptions, last \in DecisionPrices \cup {0} :
          store = [EmptyState EXCEPT
                     !.last_date = 1,
                     !.open_price = 1000,
                     !.users = [c \in UserIds |->
                                  [enabled |-> en, threshold |-> th,
                                   last_alert_price |-> last]]]
    /\ proc = "running"
    /\ now = DecisionTime
    /\ pc = "sleep"
    /\ mstate = EmptyState
    /\ quote = NoQuote
    /\ pending = {}
    /\ todo = {}
    /\ cur = None
    /\ log = {}
    /\ events = 0
    /\ hist = [NoHist EXCEPT !.date = 1, !.resets = 1]

\* One wake-up at that time, with any of the quotes.
DecisionPoll ==
    /\ pc = "sleep"
    /\ \E q \in DecisionQuotes : PollQuote(now, q)
    /\ UNCHANGED <<proc, now>>

DecisionNext == DecisionPoll \/ ThreshSend \/ Sleep

DecisionSpec == DecisionInit /\ [][DecisionNext]_vars

\* The event loop keeps running the monitor task, and the restart that is
\* waiting its second before os._exit(0) gets to it.
FairSpec == Spec /\ WF_vars(Monitor) /\ SF_vars(Exit)

\* ------------------------------------------------------------------ claims

\* What only handlers write of a chat's record: its presence, enabled, threshold.
HandlerPart(st, c) ==
    IF HasUser(st, c)
    THEN <<TRUE, st.users[c].enabled, st.users[c].threshold>>
    ELSE <<FALSE, FALSE, 0>>

FetchFailed == <<"fetch_failed", None, TRUE>>

\* C1: when a threshold alert is delivered to a recipient (a subscriber, or
\* the admin with or without a record) at price p, the recipient's
\* last_alert_price in the state file becomes p, so the same price in the
\* next poll fires no alert for that recipient.
C1_AlertMovesReference ==
    [][ (pc = "thresh_send" /\ <<"threshold", cur, TRUE>> \in log')
        => (HasUser(store', cur) /\ store'.users[cur].last_alert_price = quote.current)
      ]_vars

\* C2: the open broadcast begins at most once per date, and sent_open_alert
\* goes from false to true only in the step that ends that broadcast, in a
\* poll whose clock reads hour 9, minute >= 5.
C2_OpenFlagOncePerDate ==
    /\ [](hist.opens <= 1)
    /\ [][ (~store.sent_open_alert /\ store'.sent_open_alert)
           => /\ pc \in {"sleep", "open_send"}
              /\ <<"open", None, TRUE>> \in log'
              /\ now'.hour = 9 /\ now'.minute >= 5
              /\ hist'.date = now'.date /\ hist'.opens = 1
              /\ store'.last_date = now'.date
         ]_vars

\* C2 witness: the flag was set on the second date too, after one broadcast.
C2_Witness ==
    /\ pc = "thresh_send"
    /\ store.sent_open_alert /\ store.last_date = 2
    /\ hist.date = 2 /\ hist.opens = 1
    /\ Began("open")

\* C3: the first poll that obtains a quote on a date other than the stored
\* last_date sets last_date to the date and open_price to the quote's open,
\* resets both flags (either is set afterwards only by that poll's own
\* alert), and sets every subscriber's last_alert_price to the open, whatever
\* the subscriber's enabled flag.
C3_RolloverResets ==
    [][ (pc = "sleep" /\ pc' # "sleep" /\ InMarketHours(now')
         /\ FetchFailed \notin log' /\ store.last_date # now'.date)
        => /\ <<"reset", None, TRUE>> \in log'
           /\ store'.last_date = now'.date
           /\ store'.open_price \in OpenPrices
           /\ pc' # "done" => store'.open_price = quote'.open
           /\ store'.sent_open_alert => <<"open", None, TRUE>> \in log'
           /\ store'.sent_close_alert => <<"close", None, TRUE>> \in log'
           /\ DOMAIN store'.users = DOMAIN store.users
           /\ \A c \in DOMAIN store.users :
                store'.users[c] =
                    [store.users[c] EXCEPT !.last_alert_price = store'.open_price]
      ]_vars

\* C3 witness: a poll on the second date did the reset with a disabled
\* subscriber on file.
C3_Witness ==
    /\ pc = "done"
    /\ Began("reset")
    /\ store.last_date = 2
    /\ \E c \in DOMAIN store.users :
          ~store.users[c].enabled /\ store.users[c].last_alert_price = store.open_price

\* C4: a poll whose fetch fails changes nothing in the state file, sends no
\* alert, and goes on to the loop's sleep, from which the next poll starts.
C4_FetchFailureChangesNothing ==
    /\ [][ (pc = "sleep" /\ FetchFailed \in log')
           => (store' = store /\ log' = {FetchFailed} /\ pc' = "done" /\ hist' = hist)
         ]_vars
    /\ [][ (pc = "done" /\ FetchFailed \in log)
           => (pc' = "sleep" /\ store' = store /\ proc' = proc) ]_vars
    /\ []((pc = "sleep" /\ proc # "exited") => ENABLED Poll)

\* C4 witness: the fetch failed on a new date with a subscriber on file: the
\* stored date is still the old one.
C4_Witness ==
    /\ pc = "done"
    /\ FetchFailed \in log
    /\ store.last_date = 1 /\ now.date = 2
    /\ store.users # NoUsers

\* C5: no step of price_monitor changes what a handler wrote: every chat's
\* presence, enabled flag and threshold in the state file are the same after
\* a monitor step as before it.
C5_MonitorKeepsHandlerWrites ==
    [][ monVars' # monVars
        => \A c \in ChatIds : HandlerPart(store', c) = HandlerPart(store, c) ]_vars

\* C6: while last_date stays the same, sent_open_alert and sent_close_alert
\* never go from true to false.
C6_FlagsMonotoneWithinDate ==
    [][ store'.last_date = store.last_date
        => /\ store.sent_open_alert => store'.sent_open_alert
           /\ store.sent_close_alert => store'.sent_close_alert ]_vars

\* C6 witness: both flags are set, a later poll of the date is under way and
\* a handler has written the file during it.
C6_Witness ==
    /\ pc = "thresh_send"
    /\ events = 1
    /\ store.sent_open_alert /\ store.sent_close_alert

\* C7: on every date on which a poll obtained a quote, the reset of the
\* subscribers' last_alert_price was done exactly once (by the first such
\* poll, since the count is already 1 after it).
C7_ResetOncePerDate == hist.date # None => hist.resets = 1

\* C7 witness: a later poll of the second date is under way and did no reset.
C7_Witness ==
    /\ pc = "thresh_send"
    /\ ~Began("reset")
    /\ hist.date = 2 /\ hist.resets = 1
    /\ store.users # NoUsers

\* C8 (as claimed): no threshold alert is sent to a recipient whose
\* last_alert_price is zero or missing.
C8_NoAlertWithoutReference ==
    pc = "thresh_send"
    => (HasUser(mstate, cur) /\ mstate.users[cur].last_alert_price > 0)

\* C8 (amended): no threshold alert is sent to a recipient whose stored
\* last_alert_price is zero; a recipient with none stored is measured from
\* the quote's open, and gets no alert when that is zero.
C8_NoAlertFromZero ==
    pc = "thresh_send"
    => IF HasUser(mstate, cur)
       THEN mstate.users[cur].last_alert_price > 0
       ELSE quote.open > 0

\* C8 witness: the per-recipient loop is over and an enabled subscriber with
\* last_alert_price 0 got no alert, at a current price above 0.
C8_Witness ==
    /\ pc = "close_send"
    /\ quote.current > 0
    /\ \E c \in DOMAIN mstate.users :
          /\ mstate.users[c].enabled
          /\ mstate.users[c].last_alert_price = 0
          /\ ~Tried("threshold", c)

\* C9 (as claimed): a poll in which the open alert, a threshold alert and
\* the close alert all fire happens.
C9_AllThreeInOnePoll ==
    <>(Began("open") /\ Began("close") /\ \E c \in ChatIds : Tried("threshold", c))

\* C9 (amended): a threshold alert can fire in the poll of the open alert
\* (or of the close alert), but the open alert and the close alert never
\* fire in the same poll.
C9_OpenAndCloseNeverTogether == ~(Began("open") /\ Began("close"))

\* C9 witness: the open alert and a threshold alert fired in one poll.
C9_Witness ==
    /\ Began("open")
    /\ \E c \in ChatIds : Delivered("open", c) /\ Delivered("threshold", c)

\* C10: the close broadcast begins at most once per date, only in a poll
\* whose clock is at or after 15:30; when it is over sent_close_alert is
\* set, and it stays set while last_date stays the same.
C10_CloseOncePerDate ==
    /\ [](hist.closes <= 1)
    /\ [](Began("close") => now.hour * 60 + now.minute >= 15 * 60 + 30)
    /\ []((pc = "done" /\ Began("close"))
            => (store.sent_close_alert /\ store.last_date = now.date))
    /\ [][ (store.sent_close_alert /\ store'.last_date = store.last_date)
           => store'.sent_close_alert ]_vars

\* C10 witness: the close broadcast of the second date is over and delivered.
C10_Witness ==
    /\ pc = "done"
    /\ Began("close")
    /\ store.last_date = 2
    /\ store.sent_close_alert
    /\ \E c \in ChatIds : Delivered("close", c)

\* The recipients a send of the given kind was attempted to in the log lg.
TriedSet(kind, lg) == { c \in ChatIds : \E ok \in BOOLEAN : <<kind, c, ok>> \in lg }

\* C11: whatever send_to_user returns, a step of a broadcast or of the
\* per-recipient threshold loop leaves no recipient out: every recipient
\* still to be served is served by that step or is still to be served after
\* it, and the only error that ends an iteration after a send is the
\* division by an open price of 0, never the failed delivery.
C11_FailureSkipsNobody ==
    /\ [][ (pc = "open_send" /\ monVars' # monVars /\ proc' # "exited")
           => /\ pending \subseteq pending' \cup TriedSet("open", log')
              /\ <<"error", None, TRUE>> \in log' => quote.open = 0 ]_vars
    /\ [][ (pc = "close_send" /\ monVars' # monVars /\ proc' # "exited")
           => /\ pending \subseteq pending' \cup TriedSet("close", log')
              /\ <<"error", None, TRUE>> \notin log' ]_vars
    /\ [][ (pc = "thresh_send" /\ monVars' # monVars /\ proc' # "exited")
           => /\ cur \in TriedSet("threshold", log')
              /\ todo \subseteq todo' \cup {cur'}
              /\ todo # {} => pc' = "thresh_send"
              /\ <<"error", None, TRUE>> \notin log' ]_vars

\* C11 witness: in one poll the open alert and the threshold alert failed
\* for the admin and were delivered to the subscriber, and no error ended it.
C11_Witness ==
    /\ pc = "done"
    /\ <<"open", AdminId, FALSE>> \in log /\ <<"open", 1, TRUE>> \in log
    /\ <<"threshold", AdminId, FALSE>> \in log /\ <<"threshold", 1, TRUE>> \in log
    /\ <<"error", None, TRUE>> \notin log

\* Running subscribe, unsubscribe and set threshold a second time, for the
\* same chat and the same quote, changes nothing in the file st2 that the
\* first run left.
SecondRunChangesNothing(st, c) ==
    /\ LET st2 == AfterUnsubscribe(st, c)
       IN AfterUnsubscribe(st2, c) = st2
    /\ \A p \in HandlerPrices :
          LET st2 == AfterSubscribe(st, c, p)
          IN AfterSubscribe(st2, c, p) = st2
    /\ \A p \in HandlerPrices, t \in ThresholdInputs :
          LET st2 == AfterSetThreshold(st, c, t, p)
          IN AfterSetThreshold(st2, c, t, p) = st2

\* C12 (as claimed): wherever a handler can run, each of subscribe,
\* unsubscribe, set threshold and toggle, run a second time for the same
\* chat with the same quote, leaves the state file as the first run left it.
C12_HandlersIdempotent ==
    CanHandle =>
        \A c \in ChatIds :
            /\ SecondRunChangesNothing(store, c)
            /\ LET st2 == AfterToggle(store, c)
               IN AfterToggle(st2, c) = st2

\* C12 (amended): wherever a handler can run, subscribe, unsubscribe and set
\* threshold, run a second time for the same chat with the same quote, leave
\* the state file as the first run left it; toggle run a second time for a
\* chat on file does not: it puts the file back to what it was before the
\* first run.
C12_IdempotentButToggle ==
    CanHandle =>
        \A c \in ChatIds :
            /\ SecondRunChangesNothing(store, c)
            /\ HasUser(store, c) =>
                  LET st2 == AfterToggle(store, c)
                  IN AfterToggle(st2, c) = store /\ AfterToggle(st2, c) # st2

\* C12 witness: between two polls, with a subscriber on file whom toggle
\* has disabled and whose threshold set_alert_threshold has changed.
C12_Witness ==
    /\ CanHandle
    /\ pc = "sleep"
    /\ HasUser(store, 1)
    /\ ~store.users[1].enabled
    /\ store.users[1].threshold # DEFAULT_THRESHOLD

\* C13: a restart requested by a chat other than the admin is refused: the
\* step that refuses it leaves the state file and the process as they were,
\* so restart_chat_id is only ever the admin's id, and the process stops
\* running only in a step that records the admin's request.
C13_RestartOnlyByAdmin ==
    /\ [](store.restart_chat_id \in {None, AdminId})
    /\ [][ (proc = "running" /\ proc' # "running")
           => store'.restart_chat_id = AdminId ]_vars
    /\ [][ \A c \in UserIds :
             (<<"refused", c, TRUE>> \in log' /\ <<"refused", c, TRUE>> \notin log)
             => (store' = store /\ proc' = proc) ]_vars

\* C13 witness: the subscriber's restart was refused during a broadcast;
\* the process runs and no restart_chat_id is on file.
C13_Witness ==
    /\ <<"refused", 1, TRUE>> \in log
    /\ pc = "open_send"
    /\ HasUser(store, 1)
    /\ proc = "running"
    /\ store.restart_chat_id = None

\* An exception was raised in the current iteration.
Errored == <<"error", None, TRUE>> \in log

\* C14: an exception raised in an iteration is caught: the iteration is at
\* the loop's delay, which can be taken and is the only thing that follows,
\* with the process and the state file as they were; and from the loop's
\* wake-up, while the process runs, a further iteration can always start.
C14_ExceptionCaught ==
    /\ [](Errored => (pc = "done" /\ ENABLED Sleep))
    /\ [][ (pc = "done" /\ Errored)
           => (pc' = "sleep" /\ proc' = proc /\ store' = store) ]_vars
    /\ []((pc = "sleep" /\ proc = "running") => ENABLED <<Poll>>_vars)

\* C14 witness: the 09:05 poll divided by a prev_close of 0 before the open
\* alert; the error is logged and the iteration is at its delay.
C14_Witness ==
    /\ pc = "done"
    /\ Errored
    /\ now.hour = 9 /\ now.minute = 5
    /\ ~store.sent_open_alert
    /\ hist.opens = 0

Meets(st, c, current, open) ==
    LET us == CheckSettings(st, c, open)
    IN /\ us.enabled
       /\ us.last_alert_price > 0
       /\ Abs(current - us.last_alert_price) * 100 >= us.threshold * us.last_alert_price

\* C16: a threshold alert is sent to a recipient exactly when
\* |current - last_alert_price| / last_alert_price * 100 >= threshold; its
\* text says rise exactly when current > last_alert_price; with
\* last_alert_price 1000, current 1025 and threshold 2 it is sent, says a
\* 2.5% rise, and on delivery the subscriber's last_alert_price is 1025.
C16_ThresholdDecision ==
    /\ [](pc = "thresh_send" => Meets(mstate, cur, quote.current, quote.open))
    /\ [][ \A q \in DecisionQuotes :
             (pc = "sleep" /\ PollQuote(now, q))
             => /\ pc' = "thresh_send"
                   <=> \E c \in ChatIds : Meets(store, c, q.current, q.open)
                /\ \A c \in ChatIds :
                      Meets(store, c, q.current, q.open) <=> c \in todo' \cup {cur'}
         ]_vars
    /\ [](pc = "thresh_send" =>
            LET last == CheckSettings(mstate, cur, quote.open).last_alert_price
            IN /\ Direction(quote.current, last) = "rise" <=> quote.current > last
               /\ (quote.current = 1025 /\ last = 1000)
                     => ChangeTenths(quote.current, last) = 25)
    /\ [][ \A c \in UserIds :
             (pc = "sleep" /\ store.users[c].enabled
              /\ store.users[c].last_alert_price = 1000
              /\ store.users[c].threshold = 2
              /\ PollQuote(now, [current |-> 1025, open |-> 1000, prev_close |-> 1000]))
             => c \in todo' \cup {cur'} ]_vars
    /\ [][ (pc = "thresh_send" /\ <<"threshold", cur, TRUE>> \in log'
            /\ HasUser(mstate, cur))
           => store'.users[cur].last_alert_price = quote.current ]_vars

\* C16 witness: the 2.5% rise from 1000 to 1025 was delivered to the
\* subscriber on threshold 2, whose last_alert_price is now 1025.
C16_Witness ==
    /\ pc = "done"
    /\ <<"threshold", 1, TRUE>> \in log
    /\ store.users[1].threshold = 2
    /\ store.users[1].last_alert_price = 1025

\* C17: a move of exactly the threshold fires once: when the alert for the
\* fall from the reference 1000 (the open) to 980 at threshold 2 has been
\* delivered to a recipient, the state file is such that a following poll
\* at 980 sends that recipient no threshold alert.
C17_ExactMoveFiresOnce ==
    [][ (/\ pc = "thresh_send"
         /\ <<"threshold", cur, TRUE>> \in log'
         /\ quote.current = 980 /\ quote.open = 1000
         /\ CheckSettings(mstate, cur, quote.open).last_alert_price = 1000
         /\ CheckSettings(mstate, cur, quote.open).threshold = 2)
        => ~Meets(store', cur, 980, 1000) ]_vars

\* The clock reading t is a Saturday or Sunday, or before 9 or from 16 on.
OutsideWindow(t) == (FirstWeekday + t.date - 1) % 7 >= 5 \/ t.hour < 9 \/ t.hour >= 16

\* C18: an iteration that wakes up outside the weekday 9-16 window fetches
\* no quote, sends nothing and leaves the state file as it was: it only
\* goes to the loop's sleep; and whenever the monitor is in a send, or has
\* fetched, reset or alerted in the current iteration, the iteration's clock
\* is inside the window.
C18_ActiveOnlyInWindow ==
    /\ [][ (pc = "sleep" /\ pc' # "sleep" /\ OutsideWindow(now'))
           => /\ pc' = "done"
              /\ log' = {<<"skipped", None, TRUE>>}
              /\ store' = store
              /\ hist' = hist ]_vars
    /\ []((pc \in {"open_send", "thresh_send", "close_send"}
           \/ \E e \in log : e[1] \in {"fetch_failed", "reset", "open", "threshold",
                                        "close", "error"})
          => ~OutsideWindow(now))

\* C18 witness: a Saturday wake-up at 09:05, with a subscriber on file and
\* Friday's date and flags untouched.
C18_Witness ==
    /\ pc = "done"
    /\ Began("skipped")
    /\ (FirstWeekday + now.date - 1) % 7 = 5
    /\ now.hour = 9 /\ now.minute = 5
    /\ store.last_date = 2
    /\ store.sent_open_alert
    /\ store.users # NoUsers

\* C19: the step in which a threshold alert is delivered to a recipient
\* changes, in the state file, nothing but that recipient's
\* last_alert_price: every other chat's record (or absence), the
\* recipient's enabled and threshold, and the day fields stay as they were
\* (sent_close_alert but for a close alert finished in the same step).
C19_AlertTouchesOnlyItsRecipient ==
    [][ (pc = "thresh_send" /\ <<"threshold", cur, TRUE>> \in log')
        => /\ \A c \in ChatIds \ {cur} :
                GetUserSettings(store', c) = GetUserSettings(store, c)
           /\ HandlerPart(store', cur) = HandlerPart(store, cur)
           /\ store'.last_date = store.last_date
           /\ store'.open_price = store.open_price
           /\ store'.sent_open_alert = store.sent_open_alert
           /\ store'.sent_close_alert = store.sent_close_alert
                \/ <<"close", None, TRUE>> \in log'
      ]_vars

\* C20: a chat other than the admin that has no record in the state file
\* (it unsubscribed, or never subscribed) gets a record again only by a
\* handler step (its subscribing again), never by a step of price_monitor,
\* and price_monitor starts no threshold alert to it.
C20_UnsubscribedStaysOut ==
    /\ [][ \A c \in UserIds :
             (~HasUser(store, c) /\ HasUser(store', c)) => monVars' = monVars ]_vars
    /\ [][ \A c \in UserIds :
             (pc' = "thresh_send" /\ cur' = c /\ ~(pc = "thresh_send" /\ cur = c))
             => HasUser(store', c) ]_vars

\* C21: no iteration raises: whatever the quote, open = 0 and
\* prev_close = 0 included, the computations of the open alert, of the
\* threshold alert and of the close alert complete, so no iteration's log
\* holds an error.
C21_NoDivisionByZero == <<"error", None, TRUE>> \notin log

\* C22: a subscriber whose enabled flag in the state file is false is sent
\* no threshold alert - price_monitor starts a threshold alert only to a
\* chat that has no record or whose record is enabled - and a step of the
\* threshold loop leaves such a subscriber's last_alert_price as it was.
C22_DisabledGetsNothing ==
    /\ [][ \A c \in ChatIds :
             (pc' = "thresh_send" /\ cur' = c /\ ~(pc = "thresh_send" /\ cur = c)
              /\ HasUser(store', c))
             => store'.users[c].enabled ]_vars
    /\ [][ \A c \in ChatIds :
             (pc = "thresh_send" /\ monVars' # monVars
              /\ HasUser(store, c) /\ ~store.users[c].enabled /\ HasUser(store', c))
             => store'.users[c].last_alert_price = store.users[c].last_alert_price ]_vars

\* C23: the step in which the delivery of a threshold alert fails writes
\* nothing for it: the state file is as it was (or, when a close alert with
\* no recipient ends in the same step, the monitor's document with only
\* sent_close_alert set), so a subscriber whose record no handler touched
\* still meets the threshold at the same price; and a poll of the same date
\* that reaches the per-recipient loop attempts the alert of every
\* subscriber on file who meets the threshold at the poll's price.
C23_FailedDeliveryRetried ==
    /\ [][ (pc = "thresh_send" /\ <<"threshold", cur, FALSE>> \in log')
           => /\ \/ store' = store
                 \/ /\ <<"close", None, TRUE>> \in log'
                    /\ store' = [mstate EXCEPT !.sent_close_alert = TRUE]
              /\ (HasUser(store, cur) /\ HasUser(mstate, cur)
                  /\ store.users[cur] = mstate.users[cur])
                 => Meets(store', cur, quote.current, quote.open) ]_vars
    /\ [][ (/\ pc = "sleep" /\ pc' \notin {"sleep", "open_send"}
            /\ store.last_date = now'.date
            /\ <<"error", None, TRUE>> \notin log')
           => \A q \in Quotes :
                PollQuote(now', q)
                => \A c \in DOMAIN store.users :
                     Meets(store, c, q.current, q.open) => c \in todo' \cup {cur'}
         ]_vars

\* C23 witness: the alert for the fall from 1000 to 980 failed for the
\* subscriber, whose record on file still has the reference 1000 and meets
\* the threshold at 980.
C23_Witness ==
    /\ pc = "done"
    /\ <<"threshold", 1, FALSE>> \in log
    /\ HasUser(store, 1)
    /\ store.users[1].last_alert_price = 1000
    /\ store.open_price = 1000
    /\ Meets(store, 1, 980, 1000)

====
